---------------------------- MODULE Spec2Model ----------------------------
(***************************************************************************)
(* Model of the interaction response state machine of                      *)
(* src/src/interaction.rs: the handle returned by Bot::interaction_handle, *)
(* its `responded: Arc<Mutex<bool>>` flag, and the operations              *)
(* check_permissions, defer, reply, autocomplete and modal.                *)
(*                                                                         *)
(* Every async operation has two steps, split at its only suspension point *)
(* after the lock: the await of the HTTP request.  <op>Begin is the code   *)
(* from the acquisition of the lock to the moment the request is sent,     *)
(* <op>End is the code that runs when the request returns.  An operation   *)
(* that is waiting for the lock, or for its request, can be dropped by its *)
(* caller (Cancel); dropping the future drops the MutexGuard it owns.      *)
(***************************************************************************)
EXTENDS Naturals, Sequences, FiniteSets

\* Bounds of the model.
NumTasks    == 2    \* concurrent callers holding a clone of a handle
NumHandles  == 2    \* interactions for which a handle was created
MaxCalls    == 2    \* requests handed to the remote API in one behaviour
NumPermBits == 3    \* permission flags distinguished in a Permissions value
MaxInputs   == 2    \* text inputs given to one modal

Tasks   == 1..NumTasks
Handles == 1..NumHandles
NoTask  == 0

VARIABLES
    app_permissions,  \* [Handles -> Permissions]  InteractionHandle.app_permissions
    responded,        \* [Handles -> BOOLEAN]      the bool inside the Mutex
    holder,           \* [Handles -> Tasks \cup {NoTask}]  owner of the MutexGuard
    waiters,          \* [Handles -> Seq(Tasks)]   tasks suspended in lock().await
    pc,               \* [Tasks -> {"idle","lock","call"}]
    op,               \* [Tasks -> operation being run]
    ret,              \* what the last step returned to a caller, if it returned
    request,          \* [Tasks -> the request the task awaits, or NoRequest]
    calls             \* [Handles -> [Kinds -> [Outcomes -> Nat]]]  requests that ended

vars == <<app_permissions, responded, holder, waiters, pc, op, ret, request, calls>>

---------------------------------------------------------------------------
\* Permissions: a bitflags value, kept as the integer of its bits.

RECURSIVE Pow2(_)
Pow2(n) == IF n = 0 THEN 1 ELSE 2 * Pow2(n - 1)

\* Permissions::all(): every defined flag set.
PermissionsAll == Pow2(NumPermBits) - 1

\* Permissions::empty()
PermissionsEmpty == 0

Permissions == 0..PermissionsAll

RECURSIVE BitAnd(_, _)
BitAnd(a, b) ==
    IF a = 0 \/ b = 0 THEN 0
    ELSE (IF a % 2 = 1 /\ b % 2 = 1 THEN 1 ELSE 0) + 2 * BitAnd(a \div 2, b \div 2)

\* !b, on the bits the model distinguishes
BitNot(b) == PermissionsAll - b

\* (variant: the operands of the subtraction swapped)
PermSubSwapped(a, b) == BitAnd(b, BitNot(a))

\* impl Sub for Permissions: self.bits & !other.bits
PermSub(a, b) == BitAnd(a, BitNot(b))

\* Permissions::is_empty
IsEmpty(p) == p = PermissionsEmpty

\* Interaction.app_permissions: Option<Permissions>
NoPermissions == PermissionsAll + 1
OptPermissions == Permissions \cup {NoPermissions}

\* (variant: unwrap_or_default(), no permission when none is given)
UnwrapOrEmpty(o) == IF o = NoPermissions THEN PermissionsEmpty ELSE o

\* interaction.app_permissions.unwrap_or(Permissions::all())
UnwrapOrAll(o) == IF o = NoPermissions THEN PermissionsAll ELSE o

---------------------------------------------------------------------------
\* Results returned to the caller.

NoResult              == [tag |-> "none", missing |-> 0]
Ok                    == [tag |-> "Ok", missing |-> 0]
AlreadyResponded      == [tag |-> "AlreadyResponded", missing |-> 0]
RemoteError           == [tag |-> "RemoteError", missing |-> 0]
ValidationError       == [tag |-> "ValidationError", missing |-> 0]
MissingPermissions(m) == [tag |-> "MissingPermissions", missing |-> m]

\* Option<T>
None    == [some |-> FALSE]
Some(v) == [some |-> TRUE, val |-> v]

\* Option::flatten on an Option<Option<T>>
Flatten(o) == IF o.some THEN o.val ELSE None

\* MessageFlags, as the set of the flags that are set
EPHEMERAL == {"EPHEMERAL"}

\* The fields of a Reply that InteractionHandle::reply reads.  The message
\* parts are lists (none here), allowed_mentions is an
\* Option<Option<AllowedMentions>>: not given, given as none, or given.
ReplyOf(content, allowed_mentions) ==
    [content |-> content, embeds |-> <<>>, components |-> <<>>,
     attachments |-> <<>>, flags |-> {}, tts |-> FALSE,
     allowed_mentions |-> allowed_mentions]

Contents        == {"", "hi"}
AllowedMentions == {None, Some(None), Some(Some("users"))}
Replies         == {ReplyOf(c, am) : c \in Contents, am \in AllowedMentions}

\* The text inputs a modal is called with: every list of at most MaxInputs.
TextInputs == {"name", "age"}
RECURSIVE SeqsUpTo(_, _)
SeqsUpTo(S, n) ==
    IF n = 0 THEN {<<>>}
    ELSE LET shorter == SeqsUpTo(S, n - 1)
         IN  shorter \cup {Append(q, x) : q \in shorter, x \in S}

ModalArgs(text_inputs) ==
    [custom_id |-> "form", title |-> "Form", text_inputs |-> text_inputs]

\* The operations that take the lock, with their argument.  `valid` is
\* whether the Reply passes the checks of the followup request builder
\* (content, embeds, components, attachments); it is TRUE for the operations
\* that take no Reply.
FirstOnly  == {"defer", "autocomplete", "modal"}
WithReply  == {"reply", "followup"}
OpNames    == FirstOnly \cup WithReply
OpsOf(ephemerals, replies, text_inputs) ==
    [name : {"defer"}, h : Handles, valid : {TRUE},
        arg : [ephemeral : ephemerals]]
        \cup [name : WithReply, h : Handles, valid : BOOLEAN, arg : replies]
        \cup [name : {"autocomplete"}, h : Handles, valid : {TRUE},
                arg : {[choices |-> <<"choice">>]}]
        \cup [name : {"modal"}, h : Handles, valid : {TRUE},
                arg : {ModalArgs(i) : i \in text_inputs}]

\* The operations of the callers that race on the handles: one argument each.
Ops == OpsOf({FALSE}, {ReplyOf("hi", None)}, {<<"name">>})

\* The operations with every argument.
WireOps == OpsOf(BOOLEAN, Replies, SeqsUpTo(TextInputs, MaxInputs))

NoOp == [name |-> "none", h |-> 1, valid |-> TRUE, arg |-> [none |-> TRUE]]

\* InteractionResponseType of the request each operation sends with
\* create_response; a create_followup request has no such field.
KindOf(name) ==
    CASE name = "defer"        -> "DeferredChannelMessageWithSource"
      [] name = "reply"        -> "ChannelMessageWithSource"
      [] name = "autocomplete" -> "ApplicationCommandAutocompleteResult"
      [] name = "modal"        -> "Modal"

ResponseKinds == {KindOf(n) : n \in FirstOnly \cup {"reply"}}
Kinds == ResponseKinds \cup {"Followup"}

\* The two operations of the remote interaction API, and how a request to it
\* can end for the program: it returned Ok, it returned an error, or the
\* future awaiting it was dropped.
Endpoints == {"create_response", "create_followup"}
Outcomes  == {"ok", "failed", "abandoned"}

NoRequest == [endpoint |-> "none", kind |-> "none", data |-> None]
Request(endpoint, kind, data) == [endpoint |-> endpoint, kind |-> kind, data |-> data]

\* InteractionResponseData::default(): every field None
DefaultData ==
    [allowed_mentions |-> None, attachments |-> None, choices |-> None,
     components |-> None, content |-> None, custom_id |-> None,
     embeds |-> None, flags |-> None, title |-> None, tts |-> None]

\* The InteractionResponse a create_response request carries
InteractionResponse(kind, data) ==
    Request("create_response", kind, Some(data))

NoCalls == [k \in Kinds |-> [s \in Outcomes |-> 0]]

\* calls, with the request task t awaits ended as outcome s
Ended(t, s) == [calls EXCEPT ![op[t].h][request[t].kind][s] = @ + 1]

\* Requests of kind k on handle h that ended, whatever the outcome
EndedKind(h, k) == calls[h][k]["ok"] + calls[h][k]["failed"] + calls[h][k]["abandoned"]

\* create_response requests of handle h that ended with outcome s
Responses(h, s) ==
    calls[h]["DeferredChannelMessageWithSource"][s]
        + calls[h]["ChannelMessageWithSource"][s]
        + calls[h]["ApplicationCommandAutocompleteResult"][s]
        + calls[h]["Modal"][s]

\* Requests of handle h that ended, whatever the kind and the outcome
EndedOn(h) ==
    Responses(h, "ok") + Responses(h, "failed") + Responses(h, "abandoned")
        + EndedKind(h, "Followup")

\* The tasks awaiting a request of handle h
Awaiting(h) == {t \in Tasks : pc[t] = "call" /\ op[t].h = h}

\* Requests handed to the remote API so far
Sent ==
    LET RECURSIVE EndedUpTo(_)
        EndedUpTo(n) == IF n = 0 THEN 0 ELSE EndedOn(n) + EndedUpTo(n - 1)
    IN  EndedUpTo(NumHandles) + Cardinality({t \in Tasks : pc[t] = "call"})

RECURSIVE Without(_, _)
Without(q, t) ==
    IF q = <<>> THEN <<>>
    ELSE IF Head(q) = t THEN Without(Tail(q), t)
    ELSE <<Head(q)>> \o Without(Tail(q), t)

---------------------------------------------------------------------------
\* Bot::interaction_handle, once per interaction: interaction[h] is the
\* app_permissions field of the interaction handle h is made for.
Created(interaction) ==
    /\ app_permissions = [h \in Handles |-> UnwrapOrAll(interaction[h])]
    /\ responded = [h \in Handles |-> FALSE]
    /\ holder = [h \in Handles |-> NoTask]
    /\ waiters = [h \in Handles |-> <<>>]
    /\ pc = [t \in Tasks |-> "idle"]
    /\ op = [t \in Tasks |-> NoOp]
    /\ ret = NoResult
    /\ request = [t \in Tasks |-> NoRequest]
    /\ calls = [h \in Handles |-> NoCalls]

\* The handles of interactions that carry no permissions (direct messages).
Init == Created([h \in Handles |-> NoPermissions])

\* The handles of any interactions.
InitPerm == \E interaction \in [Handles -> OptPermissions] : Created(interaction)

\* Caller t starts one of the operations of `ops`: the future is polled and
\* asks for the lock.
Call(t, ops) ==
    /\ pc[t] = "idle"
    /\ Sent + Cardinality({u \in Tasks : pc[u] = "lock"}) < MaxCalls
    /\ \E o \in ops :
          /\ op' = [op EXCEPT ![t] = o]
          /\ waiters' = [waiters EXCEPT ![o.h] = Append(@, t)]
    /\ pc' = [pc EXCEPT ![t] = "lock"]
    /\ ret' = NoResult
    /\ UNCHANGED <<app_permissions, responded, holder, request, calls>>

\* A racing caller starts an operation.
Invoke(t) == Call(t, Ops)

\* A caller starts an operation, with any argument, when every operation
\* started before has returned or was dropped.
InvokeWith(t) ==
    /\ \A u \in Tasks : pc[u] = "idle"
    /\ Call(t, WireOps)

\* (variant: one lock for all the handles)
LockGrantedGlobal(t) ==
    /\ pc[t] = "lock"
    /\ \A h \in Handles : holder[h] = NoTask
    /\ waiters[op[t].h] # <<>>
    /\ Head(waiters[op[t].h]) = t

\* (variant: the lock is granted to the first waiter even while it is held)
LockGrantedWhileHeld(t) ==
    /\ pc[t] = "lock"
    /\ waiters[op[t].h] # <<>>
    /\ Head(waiters[op[t].h]) = t

\* self.responded.lock().await completes for the first waiter of a free lock.
LockGranted(t) ==
    /\ pc[t] = "lock"
    /\ holder[op[t].h] = NoTask
    /\ waiters[op[t].h] # <<>>
    /\ Head(waiters[op[t].h]) = t

\* (variant: the guard is not dropped on an early return)
ReturnEarlyKeepsLock(t, r) ==
    /\ pc' = [pc EXCEPT ![t] = "idle"]
    /\ op' = [op EXCEPT ![t] = NoOp]
    /\ ret' = r
    /\ waiters' = [waiters EXCEPT ![op[t].h] = Tail(@)]
    /\ holder' = [holder EXCEPT ![op[t].h] = t]
    /\ UNCHANGED <<app_permissions, responded, request, calls>>

\* Return from the operation without having sent anything: the guard is
\* dropped in the step that took it.
ReturnEarly(t, r) ==
    /\ pc' = [pc EXCEPT ![t] = "idle"]
    /\ op' = [op EXCEPT ![t] = NoOp]
    /\ ret' = r
    /\ waiters' = [waiters EXCEPT ![op[t].h] = Tail(@)]
    /\ UNCHANGED <<app_permissions, responded, holder, request, calls>>

\* (variant: the guard is dropped before the request is awaited)
SendUnlocked(t, req) ==
    /\ pc' = [pc EXCEPT ![t] = "call"]
    /\ waiters' = [waiters EXCEPT ![op[t].h] = Tail(@)]
    /\ request' = [request EXCEPT ![t] = req]
    /\ ret' = NoResult
    /\ UNCHANGED <<app_permissions, responded, holder, op, calls>>

\* Send request req and suspend on it, holding the guard.
Send(t, req) ==
    /\ pc' = [pc EXCEPT ![t] = "call"]
    /\ holder' = [holder EXCEPT ![op[t].h] = t]
    /\ waiters' = [waiters EXCEPT ![op[t].h] = Tail(@)]
    /\ request' = [request EXCEPT ![t] = req]
    /\ ret' = NoResult
    /\ UNCHANGED <<app_permissions, responded, op, calls>>

\* (variant: a request that failed is sent again instead of being returned)
FinishRetries(t, success, setFlag) ==
    /\ calls' = Ended(t, IF success THEN "ok" ELSE "failed")
    /\ request' = IF success THEN [request EXCEPT ![t] = NoRequest] ELSE request
    /\ responded' = IF success /\ setFlag
                    THEN [responded EXCEPT ![op[t].h] = TRUE]
                    ELSE responded
    /\ ret' = IF success THEN Ok ELSE NoResult
    /\ holder' = IF success THEN [holder EXCEPT ![op[t].h] = NoTask] ELSE holder
    /\ pc' = IF success THEN [pc EXCEPT ![t] = "idle"] ELSE pc
    /\ op' = IF success THEN [op EXCEPT ![t] = NoOp] ELSE op
    /\ UNCHANGED <<app_permissions, waiters>>

\* (variant: the flag is assigned before the `?`, whatever the request returned)
FinishSetsOnFailure(t, success, setFlag) ==
    /\ calls' = Ended(t, IF success THEN "ok" ELSE "failed")
    /\ request' = [request EXCEPT ![t] = NoRequest]
    /\ responded' = IF setFlag THEN [responded EXCEPT ![op[t].h] = TRUE] ELSE responded
    /\ ret' = IF success THEN Ok ELSE RemoteError
    /\ holder' = [holder EXCEPT ![op[t].h] = NoTask]
    /\ pc' = [pc EXCEPT ![t] = "idle"]
    /\ op' = [op EXCEPT ![t] = NoOp]
    /\ UNCHANGED <<app_permissions, waiters>>

\* The request returned: `?` propagates a failure, otherwise the flag is set
\* when `setFlag`; the guard is dropped on return.
Finish(t, success, setFlag) ==
    /\ calls' = Ended(t, IF success THEN "ok" ELSE "failed")
    /\ request' = [request EXCEPT ![t] = NoRequest]
    /\ responded' = IF success /\ setFlag
                    THEN [responded EXCEPT ![op[t].h] = TRUE]
                    ELSE responded
    /\ ret' = IF success THEN Ok ELSE RemoteError
    /\ holder' = [holder EXCEPT ![op[t].h] = NoTask]
    /\ pc' = [pc EXCEPT ![t] = "idle"]
    /\ op' = [op EXCEPT ![t] = NoOp]
    /\ UNCHANGED <<app_permissions, waiters>>

---------------------------------------------------------------------------
\* InteractionHandle::check_permissions
check_permissions(h, required_permissions) ==
    LET missing_permissions == PermSub(required_permissions, app_permissions[h])
    IN  IF ~IsEmpty(missing_permissions)
        THEN MissingPermissions(missing_permissions)
        ELSE Ok

\* (variant: check_permissions takes the lock of the handle before it reads)
CheckPermissionsLocked(h) ==
    /\ \E t \in Tasks : pc[t] = "idle"
    /\ holder[h] = NoTask
    /\ UNCHANGED <<pc, op, request, holder, waiters, responded, calls, app_permissions>>
    /\ ret' \in {check_permissions(h, required) : required \in Permissions}

\* A caller that is in no other operation checks some required permissions
\* on handle h: the call is synchronous and returns in the step it is made.
CheckPermissions(h) ==
    /\ \E t \in Tasks : pc[t] = "idle"
    /\ UNCHANGED <<pc, op, request, holder, waiters, responded, calls, app_permissions>>
    /\ ret' \in {check_permissions(h, required) : required \in Permissions}

\* (variant: the flags are always given, empty when not ephemeral)
DeferResponseFlagsGiven(ephemeral) ==
    InteractionResponse(KindOf("defer"),
        [DefaultData EXCEPT !.flags = Some(IF ephemeral THEN EPHEMERAL ELSE {})])

\* defer_response: flags: ephemeral.then_some(MessageFlags::EPHEMERAL),
\* ..Default::default()
DeferResponse(ephemeral) ==
    InteractionResponse(KindOf("defer"),
        [DefaultData EXCEPT !.flags = IF ephemeral THEN Some(EPHEMERAL) ELSE None])

\* (variant: defer without the AlreadyResponded check)
DeferBeginNoCheck(t) ==
    /\ op[t].name = "defer"
    /\ LockGranted(t)
    /\ Send(t, DeferResponse(op[t].arg.ephemeral))

\* InteractionHandle::defer, up to the await of create_response
DeferBegin(t) ==
    /\ op[t].name = "defer"
    /\ LockGranted(t)
    /\ IF responded[op[t].h]
       THEN ReturnEarly(t, AlreadyResponded)
       ELSE Send(t, DeferResponse(op[t].arg.ephemeral))

\* (variant: defer assigns the flag although create_response failed)
DeferEndIgnoresFailure(t, success) ==
    /\ op[t].name = "defer"
    /\ pc[t] = "call"
    /\ FinishSetsOnFailure(t, success, TRUE)

\* InteractionHandle::defer, from the return of create_response
DeferEnd(t, success) ==
    /\ op[t].name = "defer"
    /\ pc[t] = "call"
    /\ Finish(t, success, TRUE)

\* (variant: the followup branch forgets .tts(reply.tts))
ReplyFollowupNoTts(reply) ==
    Request("create_followup", "Followup",
        Some([content |-> IF reply.content # "" THEN Some(reply.content) ELSE None,
              allowed_mentions |-> IF reply.allowed_mentions.some
                                   THEN Some(reply.allowed_mentions.val)
                                   ELSE None,
              embeds |-> Some(reply.embeds),
              components |-> Some(reply.components),
              attachments |-> Some(reply.attachments),
              flags |-> Some(reply.flags),
              tts |-> None]))

\* The request built by the followup branch of reply: content is given when
\* it is not empty, allowed_mentions when the Reply has one (as_ref keeps the
\* inner Option); embeds, components, attachments, flags and tts always.
ReplyFollowup(reply) ==
    Request("create_followup", "Followup",
        Some([content |-> IF reply.content # "" THEN Some(reply.content) ELSE None,
              allowed_mentions |-> IF reply.allowed_mentions.some
                                   THEN Some(reply.allowed_mentions.val)
                                   ELSE None,
              embeds |-> Some(reply.embeds),
              components |-> Some(reply.components),
              attachments |-> Some(reply.attachments),
              flags |-> Some(reply.flags),
              tts |-> Some(reply.tts)]))

\* The InteractionResponse built by the create_response branch of reply
ReplyResponse(reply) ==
    InteractionResponse(KindOf("reply"),
        [content |-> Some(reply.content),
         embeds |-> Some(reply.embeds),
         components |-> Some(reply.components),
         attachments |-> Some(reply.attachments),
         flags |-> Some(reply.flags),
         tts |-> Some(reply.tts),
         allowed_mentions |-> Flatten(reply.allowed_mentions),
         choices |-> None,
         custom_id |-> None,
         title |-> None])

\* (variant: reply refuses a responded interaction like the other operations)
reply_begin_first_only(t) ==
    /\ LockGranted(t)
    /\ IF responded[op[t].h]
       THEN ReturnEarly(t, AlreadyResponded)
       ELSE Send(t, ReplyResponse(op[t].arg))

\* The body of InteractionHandle::reply, up to the await of the request
reply_begin(t) ==
    /\ LockGranted(t)
    /\ IF responded[op[t].h]
       THEN IF op[t].valid
            THEN Send(t, ReplyFollowup(op[t].arg))
            ELSE ReturnEarly(t, ValidationError)
       ELSE Send(t, ReplyResponse(op[t].arg))

\* The body of InteractionHandle::reply, from the return of the request: only
\* the create_response branch assigns the flag.
reply_end(t, success) ==
    /\ pc[t] = "call"
    /\ Finish(t, success, request[t].endpoint = "create_response")

ReplyBegin(t) == op[t].name = "reply" /\ reply_begin(t)

ReplyEnd(t, success) == op[t].name = "reply" /\ reply_end(t, success)

\* (variant: followup always sends a followup message, as its name says)
FollowupBeginAlways(t) ==
    /\ op[t].name = "followup"
    /\ LockGranted(t)
    /\ IF op[t].valid
       THEN Send(t, ReplyFollowup(op[t].arg))
       ELSE ReturnEarly(t, ValidationError)

\* InteractionHandle::followup (deprecated): self.reply(reply).await?; Ok(())
FollowupBegin(t) == op[t].name = "followup" /\ reply_begin(t)

FollowupEnd(t, success) == op[t].name = "followup" /\ reply_end(t, success)

\* The InteractionResponse built by autocomplete
AutocompleteResponse(choices) ==
    InteractionResponse(KindOf("autocomplete"),
        [choices |-> Some(choices),
         allowed_mentions |-> None, attachments |-> None, components |-> None,
         content |-> None, custom_id |-> None, embeds |-> None,
         flags |-> None, title |-> None, tts |-> None])

\* (variant: autocomplete without the AlreadyResponded check)
AutocompleteBeginNoCheck(t) ==
    /\ op[t].name = "autocomplete"
    /\ LockGranted(t)
    /\ Send(t, AutocompleteResponse(op[t].arg.choices))

\* InteractionHandle::autocomplete, up to the await of create_response
AutocompleteBegin(t) ==
    /\ op[t].name = "autocomplete"
    /\ LockGranted(t)
    /\ IF responded[op[t].h]
       THEN ReturnEarly(t, AlreadyResponded)
       ELSE Send(t, AutocompleteResponse(op[t].arg.choices))

\* (variant: autocomplete forgets to assign the flag)
AutocompleteEndNoSet(t, success) ==
    /\ op[t].name = "autocomplete"
    /\ pc[t] = "call"
    /\ Finish(t, success, FALSE)

\* InteractionHandle::autocomplete, from the return of create_response
AutocompleteEnd(t, success) ==
    /\ op[t].name = "autocomplete"
    /\ pc[t] = "call"
    /\ Finish(t, success, TRUE)

\* Component::ActionRow(ActionRow { components }) and Component::TextInput
ActionRow(components) == [type |-> "ActionRow", components |-> components]
TextInput(text_input) == [type |-> "TextInput", text_input |-> text_input]

\* (variant: every text input is put in one row)
RowsInOne(text_inputs) ==
    IF text_inputs = <<>> THEN <<>>
    ELSE <<ActionRow([i \in 1..Len(text_inputs) |-> TextInput(text_inputs[i])])>>

\* text_inputs.into_iter().map(|text_input| Component::ActionRow(ActionRow {
\* components: vec![Component::TextInput(text_input)] })).collect()
RECURSIVE Rows(_)
Rows(text_inputs) ==
    IF text_inputs = <<>> THEN <<>>
    ELSE <<ActionRow(<<TextInput(Head(text_inputs))>>)>> \o Rows(Tail(text_inputs))

\* The InteractionResponse built by modal
ModalResponse(custom_id, title, text_inputs) ==
    InteractionResponse(KindOf("modal"),
        [custom_id |-> Some(custom_id),
         title |-> Some(title),
         components |-> Some(Rows(text_inputs)),
         allowed_mentions |-> None, attachments |-> None, choices |-> None,
         content |-> None, embeds |-> None, flags |-> None, tts |-> None])

\* (variant: modal without the AlreadyResponded check)
ModalBeginNoCheck(t) ==
    /\ op[t].name = "modal"
    /\ LockGranted(t)
    /\ Send(t, ModalResponse(op[t].arg.custom_id, op[t].arg.title, op[t].arg.text_inputs))

\* InteractionHandle::modal, up to the await of create_response
ModalBegin(t) ==
    /\ op[t].name = "modal"
    /\ LockGranted(t)
    /\ IF responded[op[t].h]
       THEN ReturnEarly(t, AlreadyResponded)
       ELSE Send(t, ModalResponse(op[t].arg.custom_id, op[t].arg.title,
                                  op[t].arg.text_inputs))

\* InteractionHandle::modal, from the return of create_response
ModalEnd(t, success) ==
    /\ op[t].name = "modal"
    /\ pc[t] = "call"
    /\ Finish(t, success, TRUE)

\* (variant: the guard outlives the dropped future)
CancelKeepsLock(t) ==
    /\ pc[t] \in {"lock", "call"}
    /\ IF pc[t] = "lock"
       THEN /\ waiters' = [waiters EXCEPT ![op[t].h] = Without(@, t)]
            /\ UNCHANGED <<request, calls>>
       ELSE /\ calls' = Ended(t, "abandoned")
            /\ request' = [request EXCEPT ![t] = NoRequest]
            /\ UNCHANGED waiters
    /\ pc' = [pc EXCEPT ![t] = "idle"]
    /\ op' = [op EXCEPT ![t] = NoOp]
    /\ ret' = NoResult
    /\ UNCHANGED <<app_permissions, responded, holder>>

\* The caller drops the future of an operation at one of its await points:
\* in lock().await the waiter leaves the queue; in the request's await the
\* MutexGuard local is dropped, which releases the lock, and the assignment
\* to the flag that follows the await never runs.
Cancel(t) ==
    /\ pc[t] \in {"lock", "call"}
    /\ IF pc[t] = "lock"
       THEN /\ waiters' = [waiters EXCEPT ![op[t].h] = Without(@, t)]
            /\ UNCHANGED <<holder, request, calls>>
       ELSE /\ holder' = [holder EXCEPT ![op[t].h] = NoTask]
            /\ calls' = Ended(t, "abandoned")
            /\ request' = [request EXCEPT ![t] = NoRequest]
            /\ UNCHANGED waiters
    /\ pc' = [pc EXCEPT ![t] = "idle"]
    /\ op' = [op EXCEPT ![t] = NoOp]
    /\ ret' = NoResult
    /\ UNCHANGED <<app_permissions, responded>>

Next ==
    \/ \E t \in Tasks : Invoke(t)
    \/ \E h \in Handles : CheckPermissions(h)
    \/ \E t \in Tasks : DeferBegin(t)
    \/ \E t \in Tasks, success \in BOOLEAN : DeferEnd(t, success)
    \/ \E t \in Tasks : ReplyBegin(t)
    \/ \E t \in Tasks, success \in BOOLEAN : ReplyEnd(t, success)
    \/ \E t \in Tasks : FollowupBegin(t)
    \/ \E t \in Tasks, success \in BOOLEAN : FollowupEnd(t, success)
    \/ \E t \in Tasks : AutocompleteBegin(t)
    \/ \E t \in Tasks, success \in BOOLEAN : AutocompleteEnd(t, success)
    \/ \E t \in Tasks : ModalBegin(t)
    \/ \E t \in Tasks, success \in BOOLEAN : ModalEnd(t, success)
    \/ \E t \in Tasks : Cancel(t)

Spec == Init /\ [][Next]_vars

\* The step in which t, given the lock, runs its operation up to its request
\* or to an early return.
BeginOf(t) ==
    \/ DeferBegin(t)
    \/ ReplyBegin(t)
    \/ FollowupBegin(t)
    \/ AutocompleteBegin(t)
    \/ ModalBegin(t)

\* The step in which the request of t returns and t runs to its end.
EndOf(t) ==
    \E success \in BOOLEAN :
        \/ DeferEnd(t, success)
        \/ ReplyEnd(t, success)
        \/ FollowupEnd(t, success)
        \/ AutocompleteEnd(t, success)
        \/ ModalEnd(t, success)

\* The scheduling the operations rely on: the mutex is fair (the first waiter
\* of a free lock is given it), a task that can run does run, and every
\* request handed to the remote API returns.
Fairness ==
    \A t \in Tasks : WF_vars(BeginOf(t)) /\ WF_vars(EndOf(t))

SpecFair == Spec /\ Fairness

\* The operations with every argument, as the requests they hand to the
\* remote API.
NextWire ==
    \/ \E t \in Tasks : InvokeWith(t)
    \/ \E t \in Tasks : DeferBegin(t)
    \/ \E t \in Tasks, success \in BOOLEAN : DeferEnd(t, success)
    \/ \E t \in Tasks : ReplyBegin(t)
    \/ \E t \in Tasks, success \in BOOLEAN : ReplyEnd(t, success)
    \/ \E t \in Tasks : FollowupBegin(t)
    \/ \E t \in Tasks, success \in BOOLEAN : FollowupEnd(t, success)
    \/ \E t \in Tasks : AutocompleteBegin(t)
    \/ \E t \in Tasks, success \in BOOLEAN : AutocompleteEnd(t, success)
    \/ \E t \in Tasks : ModalBegin(t)
    \/ \E t \in Tasks, success \in BOOLEAN : ModalEnd(t, success)
    \/ \E t \in Tasks : Cancel(t)

SpecWire == Init /\ [][NextWire]_vars

\* check_permissions alone, on handles of every permission snapshot.
NextPerm ==
    \E h \in Handles : CheckPermissions(h)

SpecPerm == InitPerm /\ [][NextPerm]_vars

TypeOK ==
    /\ app_permissions \in [Handles -> Permissions]
    /\ responded \in [Handles -> BOOLEAN]
    /\ holder \in [Handles -> Tasks \cup {NoTask}]
    /\ \A h \in Handles : \A i \in 1..Len(waiters[h]) : waiters[h][i] \in Tasks
    /\ pc \in [Tasks -> {"idle", "lock", "call"}]
    /\ Sent <= MaxCalls

---------------------------------------------------------------------------
\* Steps of one task, read off a pair of states.

\* t's lock().await completes: t reads the flag and decides.
Begins(t) ==
    /\ pc[t] = "lock"
    /\ pc'[t] = "call" \/ (pc'[t] = "idle" /\ ret' # NoResult)

\* t hands a request to the remote API.
Sends(t) == pc[t] = "lock" /\ pc'[t] = "call"

\* t's request returns, with success or with an error.
Returns(t) == pc[t] = "call" /\ pc'[t] = "idle" /\ ret' # NoResult

\* t's future is dropped before the operation returned.
Abandons(t) == pc[t] # "idle" /\ pc'[t] = "idle" /\ ret' = NoResult

\* The create_response requests of handle h being awaited.
AwaitingResponse(h) == {t \in Awaiting(h) : request[t].endpoint = "create_response"}

---------------------------------------------------------------------------
\* C1: on every handle the responded flag is never set back to false, and it
\* goes from false to true only in the step in which a create_response
\* request of that handle returns success to its caller; so it changes at
\* most once, whatever operations (failing ones and check_permissions
\* included) are interleaved.
C1_RespondedSetOnce ==
    [][\A h \in Handles :
         /\ responded[h] => responded'[h]
         /\ (~responded[h] /\ responded'[h]) =>
              \E t \in Tasks :
                  /\ op[t].h = h
                  /\ request[t].endpoint = "create_response"
                  /\ Returns(t)
                  /\ ret' = Ok
                  /\ calls'[h][request[t].kind]["ok"] = calls[h][request[t].kind]["ok"] + 1
      ]_vars

\* The flag of a handle is set and its one successful create_response is on record.
C1_Witness == \E h \in Handles : responded[h] /\ Responses(h, "ok") = 1

---------------------------------------------------------------------------
\* C2 as stated: of two replies racing on a handle whose flag is false, one
\* is the initial response and the other a followup.  The reply that holds
\* the lock has sent create_response; for the reply that waits to become a
\* followup, the flag must be set when that request returns.
C2_Original ==
    [][\A t1, t2 \in Tasks :
         ( /\ t1 # t2
           /\ op[t1].name = "reply" /\ op[t2].name = "reply"
           /\ op[t1].h = op[t2].h
           /\ pc[t2] = "lock"
           /\ request[t1].endpoint = "create_response"
           /\ Returns(t1) )
         => responded'[op[t1].h]
      ]_vars

\* C2 amended: of two replies racing on a handle whose flag is false, the one
\* that takes the lock first sends create_response; the other is sent as a
\* followup if that request succeeded and as another create_response if it
\* failed or was abandoned.  At no time are two create_response requests of
\* one handle awaited, at most one ever succeeds, and the flag is set exactly
\* when one has succeeded (no lost update).
C2_RacingReplies ==
    /\ [](\A h \in Handles :
            /\ Cardinality(AwaitingResponse(h)) <= 1
            /\ Responses(h, "ok") <= 1
            /\ responded[h] <=> Responses(h, "ok") = 1)
    /\ [][\A t \in Tasks :
            (Sends(t) /\ op[t].name = "reply") =>
                request'[t].endpoint =
                    IF Responses(op[t].h, "ok") = 1
                    THEN "create_followup" ELSE "create_response"
         ]_vars

\* A reply awaits its create_response while another reply waits for the lock
\* of the same handle.
C2_Witness ==
    \E t1, t2 \in Tasks :
        /\ t1 # t2
        /\ op[t1].name = "reply" /\ op[t2].name = "reply"
        /\ op[t1].h = op[t2].h
        /\ pc[t1] = "call" /\ request[t1].endpoint = "create_response"
        /\ pc[t2] = "lock"

---------------------------------------------------------------------------
\* C3: the lock of a handle is held from the read of the flag to its update:
\* at most one task awaits a request of a handle, that task owns the lock,
\* and an operation reads the flag only when no request of the handle is
\* being awaited.
C3_LockHeldAcrossCall ==
    /\ [](\A h \in Handles :
            /\ Cardinality(Awaiting(h)) <= 1
            /\ \A t \in Awaiting(h) : holder[h] = t)
    /\ [][\A t \in Tasks :
            Begins(t) => (Awaiting(op[t].h) = {} /\ holder[op[t].h] = NoTask)
         ]_vars

\* A request of a handle is awaited and another operation is kept waiting
\* for the lock of that handle.
C3_Witness ==
    \E h \in Handles : holder[h] # NoTask /\ Awaiting(h) # {} /\ waiters[h] # <<>>

---------------------------------------------------------------------------
\* C4: defer, autocomplete and modal on a handle whose flag is true return
\* AlreadyResponded, hand nothing to the remote API and leave the flag true.
C4_AlreadyResponded ==
    [][\A t \in Tasks :
         (Begins(t) /\ op[t].name \in FirstOnly /\ responded[op[t].h]) =>
             /\ ret' = AlreadyResponded
             /\ pc'[t] = "idle"
             /\ request' = request
             /\ calls' = calls
             /\ responded'[op[t].h]
      ]_vars

\* A first-response-only operation has just been refused on a responded handle.
C4_Witness ==
    /\ ret = AlreadyResponded
    /\ \E h \in Handles : responded[h]

---------------------------------------------------------------------------
\* C5: a request that fails is returned to the caller as an error and leaves
\* the flag as it was; after a failed defer the flag is false, and a reply
\* that finds the flag false is sent with create_response.
C5_FailureKeepsFlag ==
    [][\A t \in Tasks :
         /\ (pc[t] = "call" /\ calls'[op[t].h][request[t].kind]["failed"]
                                  = calls[op[t].h][request[t].kind]["failed"] + 1) =>
                /\ ret' = RemoteError
                /\ pc'[t] = "idle"
                /\ responded' = responded
                /\ op[t].name = "defer" => ~responded'[op[t].h]
         /\ (Begins(t) /\ op[t].name = "reply" /\ ~responded[op[t].h]) =>
                /\ Sends(t)
                /\ request'[t].endpoint = "create_response"
                /\ request'[t].kind = "ChannelMessageWithSource"
      ]_vars

\* After a defer that failed, a reply is being sent as the initial response.
C5_Witness ==
    \E t \in Tasks :
        /\ pc[t] = "call" /\ op[t].name = "reply"
        /\ request[t].endpoint = "create_response"
        /\ calls[op[t].h]["DeferredChannelMessageWithSource"]["failed"] = 1
        /\ ~responded[op[t].h]

---------------------------------------------------------------------------
\* The routing and the flag update of reply that C6 states and amends: never
\* AlreadyResponded; create_response of kind channel-message when the flag is
\* false, with the flag set when it succeeds; on a responded handle
\* `responded_case`, with the flag left true however the followup ends.
ReplyDualMode(t, responded_case) ==
    /\ (Begins(t) /\ op[t].name = "reply") =>
          /\ ret' # AlreadyResponded
          /\ IF responded[op[t].h]
             THEN responded_case
             ELSE /\ Sends(t)
                  /\ request'[t].endpoint = "create_response"
                  /\ request'[t].kind = "ChannelMessageWithSource"
    /\ (Returns(t) /\ op[t].name = "reply") =>
          /\ ret' # AlreadyResponded
          /\ IF request[t].endpoint = "create_response"
             THEN responded'[op[t].h] <=> ret' = Ok
             ELSE responded[op[t].h] /\ responded'[op[t].h]

\* C6 as stated: reply never fails with AlreadyResponded; with the flag false
\* it sends create_response of kind channel-message and sets the flag on
\* success; with the flag true it sends create_followup and the flag stays
\* true.
C6_Original ==
    [][\A t \in Tasks :
         ReplyDualMode(t, /\ Sends(t)
                          /\ request'[t].endpoint = "create_followup"
                          /\ request'[t].kind = "Followup"
                          /\ responded'[op[t].h])
      ]_vars

\* C6 amended: as stated, except that on a responded handle a Reply that the
\* followup request builder rejects sends no request: reply returns the
\* validation error, and the flag stays true.
C6_ReplyDualMode ==
    [][\A t \in Tasks :
         ReplyDualMode(t, /\ responded'[op[t].h]
                          /\ IF op[t].valid
                             THEN /\ Sends(t)
                                  /\ request'[t].endpoint = "create_followup"
                                  /\ request'[t].kind = "Followup"
                             ELSE /\ ret' = ValidationError
                                  /\ pc'[t] = "idle"
                                  /\ request' = request
                                  /\ calls' = calls)
      ]_vars

\* A reply was the initial response of a handle and a followup of that handle
\* has ended since, the flag being true.
C6_Witness ==
    \E h \in Handles :
        /\ responded[h]
        /\ calls[h]["ChannelMessageWithSource"]["ok"] = 1
        /\ EndedKind(h, "Followup") >= 1

---------------------------------------------------------------------------
\* C7: a create_followup request is sent on a handle only after a
\* create_response request of that handle has succeeded, and once one has
\* succeeded (by defer, autocomplete, modal or reply) every request a reply
\* sends is a create_followup, never a create_response.
C7_FollowupAfterResponse ==
    [][\A t \in Tasks :
         Sends(t) =>
            /\ request'[t].endpoint = "create_followup" => Responses(op[t].h, "ok") >= 1
            /\ (Responses(op[t].h, "ok") >= 1 /\ op[t].name \in WithReply) =>
                   request'[t].endpoint = "create_followup"
      ]_vars

\* After a successful defer, a reply is being sent as a followup.
C7_Witness ==
    \E t \in Tasks :
        /\ pc[t] = "call" /\ op[t].name = "reply"
        /\ request[t].endpoint = "create_followup"
        /\ calls[op[t].h]["DeferredChannelMessageWithSource"]["ok"] = 1

---------------------------------------------------------------------------
\* C8 as stated: among concurrent callers exactly one wins, and every other
\* one is a followup or fails with AlreadyResponded.  The caller that holds
\* the lock has sent create_response; for the callers that wait to be treated
\* as later responders, and for the holder to be the winner, the flag must be
\* set when that request returns.
C8_Original ==
    [][\A t1, t2 \in Tasks :
         ( /\ t1 # t2
           /\ op[t1].h = op[t2].h
           /\ pc[t2] = "lock"
           /\ request[t1].endpoint = "create_response"
           /\ Returns(t1) )
         => (ret' = Ok /\ responded'[op[t1].h])
      ]_vars

\* C8 amended: among concurrent callers at most one wins (its create_response
\* succeeds).  Whichever caller takes the lock, if the flag is set its reply
\* becomes a followup and its defer, autocomplete or modal fails with
\* AlreadyResponded; if the flag is still false, because every earlier
\* create_response failed or was abandoned, it sends its own create_response.
C8_OneWinner ==
    /\ [](\A h \in Handles : Responses(h, "ok") <= 1 /\ Cardinality(Awaiting(h)) <= 1)
    /\ [][\A t \in Tasks :
            Begins(t) =>
                IF Responses(op[t].h, "ok") = 1
                THEN /\ op[t].name \in FirstOnly =>
                            (ret' = AlreadyResponded /\ request' = request)
                     /\ op[t].name \in WithReply =>
                            /\ ret' # AlreadyResponded
                            /\ Sends(t) => request'[t].endpoint = "create_followup"
                ELSE /\ Sends(t)
                     /\ request'[t].endpoint = "create_response"
         ]_vars

\* One caller has won the race on a handle while another caller still waits
\* for the lock of that handle.
C8_Witness ==
    \E h \in Handles : Responses(h, "ok") = 1 /\ waiters[h] # <<>>

---------------------------------------------------------------------------
\* C9: when the future of an operation is dropped, the flag is left as it
\* was and the operation no longer owns the lock; dropped while its request
\* was awaited, it frees the lock and the request counts as abandoned.  The
\* lock is only ever owned by an operation that awaits a request, and the
\* flag is only set if a create_response succeeded.
C9_CancelReleasesLock ==
    /\ [](\A h \in Handles :
            /\ holder[h] # NoTask => (pc[holder[h]] = "call" /\ op[holder[h]].h = h)
            /\ responded[h] => Responses(h, "ok") >= 1)
    /\ [][\A t \in Tasks :
            Abandons(t) =>
                /\ responded' = responded
                /\ holder'[op[t].h] # t
                /\ pc[t] = "call" =>
                      /\ holder'[op[t].h] = NoTask
                      /\ calls'[op[t].h][request[t].kind]["abandoned"]
                            = calls[op[t].h][request[t].kind]["abandoned"] + 1
         ]_vars

\* A request of a handle was abandoned, the flag is still false, and a later
\* operation owns the lock of that handle.
C9_Witness ==
    \E h \in Handles :
        /\ Responses(h, "abandoned") >= 1
        /\ ~responded[h]
        /\ holder[h] # NoTask

---------------------------------------------------------------------------
\* The set of permission flags of a Permissions value.
PermSet(p) == {i \in 1..NumPermBits : (p \div Pow2(i - 1)) % 2 = 1}

\* C10: check_permissions(required) is Ok exactly when required is a subset
\* of the permissions of the handle, and otherwise MissingPermissions of the
\* set difference required minus granted; what a check returned as missing
\* is not empty and holds no permission the handle has.
C10_CheckPermissions ==
    /\ \A h \in Handles, required \in Permissions :
          LET res == check_permissions(h, required)
              granted == app_permissions[h]
          IN  IF PermSet(required) \subseteq PermSet(granted)
              THEN res = Ok
              ELSE /\ res.tag = "MissingPermissions"
                   /\ PermSet(res.missing) = PermSet(required) \ PermSet(granted)
    /\ ret.tag = "MissingPermissions" =>
          \E h \in Handles :
              /\ PermSet(ret.missing) # {}
              /\ PermSet(ret.missing) \cap PermSet(app_permissions[h]) = {}

\* required {A,B} on a handle granted {A} returned missing {B}, and another
\* handle is granted {A,B,C}.
C10_Witness ==
    \E h, g \in Handles :
        /\ PermSet(app_permissions[h]) = {1}
        /\ ret = MissingPermissions(2)
        /\ {1, 2, 3} \subseteq PermSet(app_permissions[g])

---------------------------------------------------------------------------
\* C11: check_permissions neither reads nor writes the responded flag, takes
\* no lock and sends nothing: whenever a caller is free to call it, also while
\* an operation holds the lock of the same handle and awaits its request, it
\* returns at once, and the step in which it returns leaves the flag, the
\* lock, its waiters, the requests being awaited and the requests that ended
\* as they were.
C11_CheckPermissionsFrame ==
    /\ [](\A h \in Handles :
            (\E t \in Tasks : pc[t] = "idle") => ENABLED CheckPermissions(h))
    /\ [][(\E h \in Handles : CheckPermissions(h)) =>
                /\ responded' = responded
                /\ holder' = holder
                /\ waiters' = waiters
                /\ request' = request
                /\ calls' = calls
                /\ Sent' = Sent
         ]_vars

\* A check returned Ok while an operation held the lock and awaited its
\* request: no request has ended, so the Ok is the check's.
C11_Witness ==
    /\ ret = Ok
    /\ \A h \in Handles : EndedOn(h) = 0
    /\ \E h \in Handles : holder[h] # NoTask /\ Awaiting(h) # {}

---------------------------------------------------------------------------
\* C12: the handle made for an interaction that carries no permissions is
\* granted every permission, so every check on it returns Ok; the handle made
\* for an interaction that carries the permissions P is granted exactly P.
\* The permissions of a handle never change afterwards.
C12_UnknownMeansAll ==
    /\ [](ret = NoResult =>
            \A interaction \in [Handles -> OptPermissions] :
                Created(interaction) =>
                    \A h \in Handles :
                        IF interaction[h] = NoPermissions
                        THEN /\ PermSet(app_permissions[h]) = 1..NumPermBits
                             /\ \A required \in Permissions :
                                    check_permissions(h, required) = Ok
                        ELSE PermSet(app_permissions[h]) = PermSet(interaction[h]))
    /\ [][/\ app_permissions' = app_permissions
          /\ \A h \in Handles :
                (CheckPermissions(h) /\ PermSet(app_permissions[h]) = 1..NumPermBits
                    /\ \A g \in Handles \ {h} : app_permissions[g] = PermissionsEmpty)
                => ret' = Ok
         ]_vars

\* A check returned Ok on the handle of an interaction without permissions,
\* the other handle being the one of an interaction that grants nothing.
C12_Witness ==
    /\ ret = Ok
    /\ \E h \in Handles :
          /\ PermSet(app_permissions[h]) = 1..NumPermBits
          /\ \A g \in Handles \ {h} : app_permissions[g] = PermissionsEmpty

---------------------------------------------------------------------------
\* C13: no operation sends a request twice.  A request is handed to the
\* remote API only in the step in which an operation that took the lock sends
\* it, one per step; an operation that awaits its request sends nothing more
\* and keeps awaiting that request until it returns or is dropped; an
\* operation refused with AlreadyResponded has sent nothing; and a request
\* that failed is returned to the caller as an error, the operation being
\* over, without another request.
C13_NoRetry ==
    [][/\ LET sending == {t \in Tasks : Sends(t)}
          IN  /\ Cardinality(sending) <= 1
              /\ Sent' = Sent + Cardinality(sending)
       /\ \A t \in Tasks :
             /\ pc[t] = "call" =>
                   \/ pc'[t] = "call" /\ request'[t] = request[t]
                   \/ pc'[t] = "idle" /\ request'[t] = NoRequest
             /\ pc[t] = "lock" /\ pc'[t] = "idle" => request'[t] = NoRequest
             /\ (Begins(t) /\ ret' = AlreadyResponded) =>
                   /\ pc'[t] = "idle"
                   /\ request' = request
                   /\ calls' = calls
             /\ (pc[t] = "call" /\ calls'[op[t].h][request[t].kind]["failed"]
                                      = calls[op[t].h][request[t].kind]["failed"] + 1) =>
                   /\ ret' = RemoteError
                   /\ pc'[t] = "idle"
                   /\ \A u \in Tasks \ {t} : request'[u] = request[u]
      ]_vars

\* The one request sent so far failed and its error is back at the caller,
\* the operation being over.
C13_Witness ==
    /\ ret = RemoteError
    /\ Sent = 1
    /\ \A t \in Tasks : pc[t] # "call"
    /\ \E h \in Handles : Responses(h, "failed") + calls[h]["Followup"]["failed"] = 1

---------------------------------------------------------------------------
\* The handle the step of t is about.
HandleOf(t) == IF pc[t] = "idle" THEN op'[t].h ELSE op[t].h

\* C14: the flag and its lock belong to one interaction.  Every handle
\* starts with the flag false and the lock free.  The callers of one handle
\* share them: none reads the flag while another one owns the lock of that
\* handle, and a first-response-only operation is refused once the flag was
\* set, whoever set it.  The handles of different interactions share nothing:
\* the first waiter of a free lock proceeds whatever operations own the locks
\* of other handles, and a step of an operation changes neither the flag, the
\* lock, the waiters nor the requests on record of any other handle.
C14_PerInteraction ==
    /\ \A h \in Handles : ~responded[h] /\ holder[h] = NoTask
    /\ [](\A t \in Tasks :
            ( /\ pc[t] = "lock"
              /\ holder[op[t].h] = NoTask
              /\ Head(waiters[op[t].h]) = t ) => ENABLED BeginOf(t))
    /\ [][\A t \in Tasks :
            /\ pc'[t] # pc[t] =>
                  \A g \in Handles \ {HandleOf(t)} :
                      /\ responded'[g] = responded[g]
                      /\ holder'[g] = holder[g]
                      /\ waiters'[g] = waiters[g]
                      /\ calls'[g] = calls[g]
            /\ Begins(t) =>
                  /\ holder[op[t].h] = NoTask
                  /\ (responded[op[t].h] /\ op[t].name \in FirstOnly) =>
                         ret' = AlreadyResponded
         ]_vars

\* Two operations await their requests at once, each owning the lock of its
\* own handle.
C14_Witness ==
    \E t1, t2 \in Tasks :
        /\ op[t1].h # op[t2].h
        /\ pc[t1] = "call" /\ holder[op[t1].h] = t1
        /\ pc[t2] = "call" /\ holder[op[t2].h] = t2

---------------------------------------------------------------------------
\* Field f is in both payloads or in none, and with the same value when it is
\* in both; the allowed mentions of a followup are themselves an Option.
SameField(f, initial, followup) ==
    /\ initial[f].some <=> followup[f].some
    /\ initial[f].some =>
          IF f = "allowed_mentions"
          THEN followup[f].val = Some(initial[f].val)
          ELSE followup[f].val = initial[f].val

\* The replies being sent as a followup on a handle whose initial response
\* was a reply.
SecondReplies ==
    {t \in Tasks : /\ pc[t] = "call"
                   /\ op[t].name = "reply"
                   /\ request[t].endpoint = "create_followup"
                   /\ calls[op[t].h]["ChannelMessageWithSource"]["ok"] = 1}

\* A reply awaits create_response while the flag is false and create_followup
\* once it is true.
ReplyRouted ==
    \A t \in Tasks :
        (pc[t] = "call" /\ op[t].name = "reply") =>
            /\ request[t].endpoint =
                  IF responded[op[t].h] THEN "create_followup" ELSE "create_response"
            /\ request[t].endpoint = "create_response" =>
                  request[t] = ReplyResponse(op[t].arg)

\* C15 as stated: after a reply was the initial response of a handle, a reply
\* is sent as a followup, and each of content, embeds, components,
\* attachments, flags, tts and allowed mentions is in the followup exactly
\* when it is in the initial response made of the same Reply, with the same
\* value, whatever the Reply.
C15_Original ==
    /\ ReplyRouted
    /\ \A t \in SecondReplies :
          \A f \in {"content", "embeds", "components", "attachments", "flags",
                    "tts", "allowed_mentions"} :
              SameField(f, ReplyResponse(op[t].arg).data.val, request[t].data.val)

\* C15 amended: as stated for embeds, components, attachments, flags and tts,
\* for a content that is not empty and for allowed mentions that are given or
\* not given at all.  An empty content is in the initial response as the
\* empty string and not in the followup; allowed mentions explicitly given as
\* none are not in the initial response and are in the followup as none.
C15_ReplyThenReply ==
    /\ ReplyRouted
    /\ \A t \in SecondReplies :
          LET reply    == op[t].arg
              initial  == ReplyResponse(reply).data.val
              followup == request[t].data.val
          IN  /\ \A f \in {"embeds", "components", "attachments", "flags", "tts"} :
                    initial[f].some /\ SameField(f, initial, followup)
              /\ IF reply.content # ""
                 THEN initial.content.some /\ SameField("content", initial, followup)
                 ELSE initial.content = Some("") /\ followup.content = None
              /\ CASE reply.allowed_mentions = None ->
                        initial.allowed_mentions = None
                            /\ followup.allowed_mentions = None
                   [] reply.allowed_mentions = Some(None) ->
                        initial.allowed_mentions = None
                            /\ followup.allowed_mentions = Some(None)
                   [] OTHER ->
                        initial.allowed_mentions.some
                            /\ SameField("allowed_mentions", initial, followup)

\* After a reply was the initial response, a Reply with an empty content and
\* allowed mentions given as none is being sent as a followup.
C15_Witness ==
    \E t \in SecondReplies : op[t].arg = ReplyOf("", Some(None))

---------------------------------------------------------------------------
\* The modals awaiting their request.
Modals == {t \in Tasks : pc[t] = "call" /\ op[t].name = "modal"}

\* C16: the request of a modal is a create_response of kind Modal whose
\* components are one row for each text input, in the order given: as many
\* rows as text inputs (none for an empty list), row i being an action row
\* that holds the i-th text input and nothing else.  The flag, false while
\* the request is awaited, is set in the step the request returns exactly
\* when it returns success, and is not set when the modal is dropped.
C16_ModalRows ==
    /\ [](\A t \in Modals :
            LET text_inputs == op[t].arg.text_inputs
                components  == request[t].data.val.components
            IN  /\ request[t].endpoint = "create_response"
                /\ request[t].kind = "Modal"
                /\ ~responded[op[t].h]
                /\ components.some
                /\ Len(components.val) = Len(text_inputs)
                /\ \A i \in 1..Len(text_inputs) :
                      /\ components.val[i].type = "ActionRow"
                      /\ Len(components.val[i].components) = 1
                      /\ components.val[i].components[1].type = "TextInput"
                      /\ components.val[i].components[1].text_input = text_inputs[i])
    /\ [][\A t \in Modals :
            /\ Returns(t) => (responded'[op[t].h] <=> ret' = Ok)
            /\ Abandons(t) => ~responded'[op[t].h]
         ]_vars

\* A modal of two different text inputs awaits its request.
C16_Witness ==
    \E t \in Modals :
        /\ op[t].arg.text_inputs = <<"name", "age">>
        /\ Len(request[t].data.val.components.val) = 2

---------------------------------------------------------------------------
\* The defers awaiting their request.
Defers == {t \in Tasks : pc[t] = "call" /\ op[t].name = "defer"}

\* C17: a defer that finds the flag false sends one request: a
\* create_response of kind DeferredChannelMessageWithSource whose flags are
\* EPHEMERAL when ephemeral is true and are not given when it is false, with
\* no other field given.  It sends nothing more, and the flag is set in the
\* step the request returns exactly when it returns success.
C17_DeferPayload ==
    /\ [](\A t \in Defers :
            /\ ~responded[op[t].h]
            /\ request[t].endpoint = "create_response"
            /\ request[t].kind = "DeferredChannelMessageWithSource"
            /\ request[t].data.some
            /\ request[t].data.val.flags =
                  IF op[t].arg.ephemeral THEN Some({"EPHEMERAL"}) ELSE None
            /\ \A f \in DOMAIN request[t].data.val \ {"flags"} :
                  request[t].data.val[f] = None)
    /\ [][\A t \in Tasks :
            /\ (Begins(t) /\ op[t].name = "defer" /\ ~responded[op[t].h]) =>
                  /\ Sends(t)
                  /\ Sent' = Sent + 1
            /\ t \in Defers =>
                  /\ \/ pc'[t] = "call" /\ request'[t] = request[t]
                     \/ pc'[t] = "idle" /\ request'[t] = NoRequest
                  /\ Returns(t) => (responded'[op[t].h] <=> ret' = Ok)
                  /\ Abandons(t) => ~responded'[op[t].h]
         ]_vars

\* A defer that is not ephemeral awaits its request, which has no flags.
C17_Witness ==
    \E t \in Defers :
        /\ ~op[t].arg.ephemeral
        /\ request[t].data.val.flags = None

---------------------------------------------------------------------------
\* C18: followup is reply under another name.  What an operation that takes
\* a Reply sends, returns and does to the flag is decided by the flag, the
\* Reply and the answer of the remote API alone, not by which of the two was
\* called: with the flag false it sends the create_response made of the
\* Reply, and the flag is set exactly when that request returns success; with
\* the flag true it sends the create_followup made of the Reply, or returns
\* the validation error and sends nothing, and the flag stays true.  So a
\* followup on a handle that was not responded to sends the initial response.
C18_FollowupIsReply ==
    [][\A t \in Tasks :
         op[t].name \in WithReply =>
            /\ Begins(t) =>
                  IF ~responded[op[t].h]
                  THEN /\ Sends(t)
                       /\ request'[t] = ReplyResponse(op[t].arg)
                       /\ request'[t].endpoint = "create_response"
                  ELSE IF op[t].valid
                  THEN /\ Sends(t)
                       /\ request'[t] = ReplyFollowup(op[t].arg)
                       /\ request'[t].endpoint = "create_followup"
                  ELSE /\ ret' = ValidationError
                       /\ pc'[t] = "idle"
                       /\ request' = request
            /\ Returns(t) =>
                  /\ ret' \in {Ok, RemoteError}
                  /\ responded'[op[t].h] <=>
                        \/ responded[op[t].h]
                        \/ request[t].endpoint = "create_response" /\ ret' = Ok
            /\ Begins(t) \/ Abandons(t) => responded' = responded
      ]_vars

\* A followup called on a handle that was not responded to awaits a
\* create_response.
C18_Witness ==
    \E t \in Tasks :
        /\ pc[t] = "call"
        /\ op[t].name = "followup"
        /\ request[t].endpoint = "create_response"
        /\ ~responded[op[t].h]

---------------------------------------------------------------------------
\* C19: no create_response request is sent on a handle after one of that
\* handle succeeded.  When one is sent, every earlier create_response request
\* of the handle has ended, failed or abandoned; so at most one ever
\* succeeds, and once one has succeeded none is awaited.
C19_OneInitialResponse ==
    /\ [](\A h \in Handles :
            /\ Responses(h, "ok") <= 1
            /\ Responses(h, "ok") = 1 => AwaitingResponse(h) = {})
    /\ [][\A t \in Tasks :
            (Sends(t) /\ request'[t].endpoint = "create_response") =>
                /\ Responses(op[t].h, "ok") = 0
                /\ AwaitingResponse(op[t].h) = {}
                /\ ~responded[op[t].h]
         ]_vars

\* On one handle a create_response request failed and a later one succeeded.
C19_Witness ==
    \E h \in Handles :
        /\ Responses(h, "failed") = 1
        /\ Responses(h, "ok") = 1
        /\ responded[h]

---------------------------------------------------------------------------
\* C20: an operation that ends, by success, AlreadyResponded, a validation
\* error, a remote failure or a drop, owns no lock afterwards: the lock it
\* held while awaiting its request is free, and one it never took is as it
\* was.  In any state where operations are pending one of them can take a
\* step; and with a fair mutex and requests that return, every operation that
\* was invoked ends: no caller stays in an operation for ever.
C20_Terminates ==
    /\ [][\A t \in Tasks :
            (pc[t] # "idle" /\ pc'[t] = "idle") =>
                /\ \A h \in Handles : holder'[h] # t
                /\ pc[t] = "call" => holder'[op[t].h] = NoTask
                /\ pc[t] = "lock" => holder'[op[t].h] = holder[op[t].h]
         ]_vars
    /\ []((\E t \in Tasks : pc[t] # "idle") =>
            \E t \in Tasks : ENABLED (BeginOf(t) \/ EndOf(t)))
    /\ \A t \in Tasks : []<>(pc[t] = "idle")

\* A reply has just returned a validation error: no operation is pending and
\* every lock is free.
C20_Witness ==
    /\ ret = ValidationError
    /\ \A t \in Tasks : pc[t] = "idle"
    /\ \A h \in Handles : holder[h] = NoTask /\ waiters[h] = <<>>

====
